---- MODULE Spec2Model ----
(***************************************************************************)
(* The bounding-box annotation component StreamlitImgLabel                 *)
(* (src/streamlit_img_label/frontend/src/StreamlitImgLabel.tsx, the        *)
(* revision of lines 236-507, which extends the one of lines 1-234 by the  *)
(* tracked selection and the label editor).                                *)
(*                                                                         *)
(* The component is a React function component over a fabric canvas.       *)
(*   - React state: labels, canvas, newBBoxIndex, selectedIndex,           *)
(*     labelInput.  A handler is a closure over the values of the render   *)
(*     that created it; its setState calls take effect at the end of the   *)
(*     handler, the last call to one setter winning.                       *)
(*   - The fabric canvas is a mutable object shared by all closures: its   *)
(*     object list and its active selection are read live.                 *)
(*   - Buttons and the label input carry the handlers of the latest        *)
(*     render.  The window keydown listener is re-bound only when canvas   *)
(*     or labels change identity (deps [canvas, labels]); kd is the        *)
(*     closure it currently holds.                                         *)
(*   - imageData ranges over pixel buffers, and the component does nothing  *)
(*     with it but compare dataUri with the one of the previous render.    *)
(*     The model keeps no pixels: a render whose dataUri (or dimensions)   *)
(*     differs is the step Rebuild, one whose dataUri is the same is the   *)
(*     step ArgsChange; which of the two happens is the host's choice.     *)
(*   - The canvas listeners are bound by a second effect of the same deps; *)
(*     listeners counts the handlers it leaves registered, sent the        *)
(*     emissions of a step, undisposed the canvases a step made and did    *)
(*     not dispose of.                                                     *)
(* Indices of the source are 0-based; sequences here are 1-based, and      *)
(* selectedIndex keeps the 0-based value of the source.                    *)
(***************************************************************************)
EXTENDS Integers, Sequences, FiniteSets, TLC

\* ---------------------------------------------------------------- bounds
MaxBoxes == 2        \* at most this many shapes / labels
MaxIndex == 2        \* quick-add is offered while the captured counter is below this
MaxText == 4         \* a key is typed while the editor holds fewer characters

\* ------------------------------------------------------- program constants
StrokeWidth == 1     \* strokeWidth: 1 of every fabric.Rect
null == -1           \* selectedIndex: number | null
undefined == "<undefined>"   \* reading an array slot that holds nothing
hole == "<empty>"            \* an empty slot of a sparse array

VARIABLES
    args,            \* props.args of the latest render
    objects,         \* canvas.getObjects(): the shapes, in order
    active,          \* canvas.getActiveObjects(), as positions in objects
    labels,          \* React state labels
    newBBoxIndex,    \* React state newBBoxIndex
    selectedIndex,   \* React state selectedIndex (0-based, or null)
    labelInput,      \* React state labelInput
    kd,              \* closure held by the window keydown listener
    emitted,         \* rects of the last Streamlit.setComponentValue
    sent,            \* the calls of Streamlit.setComponentValue in the last step
    listeners,       \* the handlers registered by the effects of deps [canvas, labels]
    undisposed,      \* the fabric canvases the last step made on the element "c"
                     \* less the canvases it disposed of
    lastOp,          \* history: the operation that produced this state
    afterClear,      \* history: the operation before lastOp was Clear-all
    gesture          \* the pointer over the canvas, and whether it went down
                     \* right after a key that is no shortcut

vars == <<args, objects, active, labels, newBBoxIndex, selectedIndex, labelInput,
          kd, emitted, sent, listeners, undisposed, lastOp, afterClear, gesture>>

\* ------------------------------------------------------------ host inputs
RectA == [left |-> 10, top |-> 20, width |-> 30, height |-> 40, label |-> "dog"]
RectB == [left |-> 50, top |-> 60, width |-> 70, height |-> 80, label |-> "owl"]
RectsChoices == { <<>>, <<RectA, RectB>> }
DimChoices == { <<1000, 800>> }
InputTexts == { "pig" }
Keys == { "a", "r", "x", "c", "p" }
MovedGeometry == [left |-> 1, top |-> 2, width |-> 3, height |-> 4]

PythonArgs ==
    { [canvasWidth |-> d[1], canvasHeight |-> d[2], rects |-> r] :
        d \in DimChoices, r \in RectsChoices }

\* -------------------------------------------------------------- helpers
\* arr[i] of JavaScript (i 1-based here): undefined past the end and on an
\* empty slot
At(arr, i) == IF i >= 1 /\ i <= Len(arr) /\ arr[i] # hole THEN arr[i] ELSE undefined

\* [...arr]: a dense copy, empty slots read as undefined
Spread(arr) == [i \in 1..Len(arr) |-> At(arr, i)]

\* arr[k] = v of JavaScript for a 0-based k: past the end the array grows and
\* the slots in between stay empty
SetAt(arr, k, v) ==
    [i \in 1..(IF k + 1 > Len(arr) THEN k + 1 ELSE Len(arr)) |->
        IF i = k + 1 THEN v ELSE IF i <= Len(arr) THEN arr[i] ELSE hole]

\* new fabric.Rect({left, top, width, height, ...}), unscaled and unrotated
Rect(r) == [left |-> r.left, top |-> r.top, width |-> r.width, height |-> r.height]

\* fabric's getBoundingRect of such a Rect: the stroke is part of the box
getBoundingRect(o) ==
    [left |-> o.left, top |-> o.top,
     width |-> o.width + StrokeWidth, height |-> o.height + StrokeWidth]

\* what a handler reads and writes: the canvas and the pending React state
State ==
    [objects |-> objects, active |-> active, labels |-> labels,
     newBBoxIndex |-> newBBoxIndex, selectedIndex |-> selectedIndex,
     labelInput |-> labelInput, emitted |-> emitted, sent |-> 0,
     undisposed |-> 0]

\* the closure of the latest render
Render == [newBBoxIndex |-> newBBoxIndex, labels |-> labels, args |-> args]

\* ------------------------------------------------------------- handlers
\* A handler takes the closure c it was created in and the state s it runs on.
sendCoordinates(returnLabels, s) ==
    [s EXCEPT !.labels = returnLabels,
              !.sent = @ + 1,
              !.emitted = [i \in 1..Len(s.objects) |->
                    [left |-> getBoundingRect(s.objects[i]).left,
                     top |-> getBoundingRect(s.objects[i]).top,
                     width |-> getBoundingRect(s.objects[i]).width,
                     height |-> getBoundingRect(s.objects[i]).height,
                     label |-> At(returnLabels, i)]]]

\* canvasWidth * 0.15 and canvasWidth * 0.2 are whole numbers for the
\* dimensions of DimChoices
defaultBox(c) ==
    [left |-> (c.args.canvasWidth * 15) \div 100 + c.newBBoxIndex * 3,
     top |-> (c.args.canvasHeight * 15) \div 100 + c.newBBoxIndex * 3,
     width |-> (c.args.canvasWidth * 20) \div 100,
     height |-> (c.args.canvasHeight * 20) \div 100]

addBoxHandlerNoLabel(c, s) ==
    LET box == defaultBox(c)
        s1 == [s EXCEPT !.newBBoxIndex = c.newBBoxIndex + 1]
        s2 == [s1 EXCEPT !.objects = Append(s1.objects, Rect(box))]
    IN  sendCoordinates(Spread(c.labels), s2)

addBoxHandler(c, s) ==
    LET box == defaultBox(c)
        s1 == [s EXCEPT !.newBBoxIndex = c.newBBoxIndex + 1]
        s2 == [s1 EXCEPT !.objects = Append(s1.objects, Rect(box))]
    IN  sendCoordinates(Append(Spread(c.labels), ""), s2)

\* selectedObjects.forEach(obj => canvas.remove(obj)): the objects at the
\* positions of sel leave the list, the others keep their order
RemoveObjects(objs, sel) ==
    LET keep == { i \in 1..Len(objs) : i \notin sel }
        rank(i) == Cardinality({ j \in keep : j <= i })
    IN  [n \in 1..Cardinality(keep) |-> objs[CHOOSE i \in keep : rank(i) = n]]

\* labels.filter((_, index) => !selectedIndices.includes(index)): filter calls
\* back for the slots that hold an element only, so empty slots are dropped
FilterLabels(arr, sel) ==
    LET keep == { i \in 1..Len(arr) : i \notin sel /\ arr[i] # hole }
        rank(i) == Cardinality({ j \in keep : j <= i })
    IN  [n \in 1..Cardinality(keep) |-> arr[CHOOSE i \in keep : rank(i) = n]]

removeBoxHandler(c, s) ==
    LET selectedIndices == s.active
        s1 == [s EXCEPT !.objects = RemoveObjects(s.objects, s.active)]
        updatedLabels == FilterLabels(c.labels, selectedIndices)
        s2 == sendCoordinates(updatedLabels, s1)
    IN  [s2 EXCEPT !.selectedIndex = null, !.active = {}]

clearHandlerKeepsCounter(c, s) ==
    LET s2 == [s EXCEPT !.objects = <<>>, !.active = {}]
        s3 == [s2 EXCEPT !.selectedIndex = null]
    IN  sendCoordinates(<<>>, s3)

\* Removing the active object makes fabric discard the selection.  A selection
\* of several objects stays behind as a group of objects that are no longer on
\* the canvas; no handler can tell it from the empty selection (indexOf of its
\* members is -1, canvas.remove of them does nothing), so active is {} here.
clearHandler(c, s) ==
    LET s1 == [s EXCEPT !.newBBoxIndex = 0]
        s2 == [s1 EXCEPT !.objects = <<>>, !.active = {}]
        s3 == [s2 EXCEPT !.selectedIndex = null]
    IN  sendCoordinates(<<>>, s3)

\* labels is the array of the closure: clearHandler's setLabels([]) is
\* overwritten by it
resetHandler(c, s) ==
    LET s1 == clearHandler(c, s)
        rects == c.args.rects
        s2 == [s1 EXCEPT !.objects =
                    s1.objects \o [i \in 1..Len(rects) |-> Rect(rects[i])]]
    IN  sendCoordinates(c.labels, s2)

handleModifiedSilent(c, s) == s

handleModified(c, s) == sendCoordinates(c.labels, s)

\* e.selected lists the objects the event added to the selection; first is the
\* position of e.selected[0] in objects, 0 when the list is empty
handleSelected(c, first, s) ==
    IF first # 0
    THEN [s EXCEPT !.selectedIndex = first - 1,
                   !.labelInput = IF At(c.labels, first) = undefined
                                  THEN "" ELSE At(c.labels, first)]
    ELSE [s EXCEPT !.selectedIndex = null]

\* onBlur, and onKeyDown with Enter, of the label input
commitLabel(c, s) ==
    LET updatedLabels == SetAt(Spread(c.labels), s.selectedIndex, s.labelInput)
    IN  sendCoordinates(updatedLabels, s)

\* the window keydown listener (e.key.toLowerCase() of a letter key)
handleKeyDown(c, key, s) ==
    IF key = "a" THEN addBoxHandler(c, s)
    ELSE IF key = "r" THEN removeBoxHandler(c, s)
    ELSE IF key = "x" THEN resetHandler(c, s)
    ELSE IF key = "c" THEN clearHandler(c, s)
    ELSE s

\* the effect of deps [canvasHeight, canvasWidth, dataUri]: a new canvas with
\* one Rect per rect, and the labels of the rects.  new fabric.Canvas("c") is
\* one more canvas on the element; the effect has no cleanup and nothing in
\* the component calls dispose() on the canvas that was the state.
initCanvas(a, s) ==
    [s EXCEPT !.undisposed = @ + 1,
              !.objects = [i \in 1..Len(a.rects) |-> Rect(a.rects[i])],
              !.active = {},
              !.labels = [i \in 1..Len(a.rects) |-> a.rects[i].label]]

\* The effect of deps [canvas, labels] that binds the canvas listeners, as
\* numbers of handlers per event of one canvas.  canvas.off(name, handler)
\* takes that handler away, canvas.off(name) every handler of the event.
NoListeners == [modified |-> 0, created |-> 0, updated |-> 0, cleared |-> 0]

register(on) ==
    [modified |-> on.modified + 1, created |-> on.created + 1,
     updated |-> on.updated + 1, cleared |-> on.cleared + 1]

cleanupNothing(on) == on

cleanup(on) ==
    [modified |-> on.modified - 1, created |-> on.created - 1,
     updated |-> on.updated - 1, cleared |-> 0]

\* labels is a new array and canvas is the same: the cleanups of the two
\* effects run, then the effects (window.removeEventListener and
\* window.addEventListener with the handler of the keydown effect)
effectsRerun(l) ==
    [l EXCEPT !.canvas = register(cleanup(l.canvas)),
              !.window = (l.window - 1) + 1]

\* canvas is a new canvas: the cleanup runs on the canvas of its closure, the
\* previous one, and the effect registers on the new one
effectsRerunOnNewCanvas(l) ==
    LET old == cleanup(l.canvas)
    IN  [canvas |-> register(NoListeners),
         previous |-> l.previous + old.modified + old.created + old.updated
                          + old.cleared,
         window |-> (l.window - 1) + 1]

\* fabric calls every handler registered for object:modified
RECURSIVE fireModified(_, _, _)
fireModified(n, c, s) ==
    IF n = 0 THEN s ELSE handleModified(c, fireModified(n - 1, c, s))

\* the lowest position of a selection
Lowest(sel) == CHOOSE m \in sel : \A j \in sel : m <= j

\* ---------------------------------------------------------------- steps
Apply(s) ==
    /\ objects' = s.objects
    /\ active' = s.active
    /\ labels' = s.labels
    /\ newBBoxIndex' = s.newBBoxIndex
    /\ selectedIndex' = s.selectedIndex
    /\ labelInput' = s.labelInput
    /\ emitted' = s.emitted
    /\ sent' = s.sent
    /\ undisposed' = s.undisposed

\* the history variables; a pointer that is down stays down
Op(name) ==
    /\ lastOp' = name
    /\ afterClear' = (lastOp = "clear")
    /\ gesture' = IF gesture \in {"down", "key-down"} THEN "down" ELSE "idle"

\* the state after mount: the canvas effect has run and the component has
\* rendered again with the canvas and the labels it set
Init ==
    /\ args \in PythonArgs
    /\ objects = [i \in 1..Len(args.rects) |-> Rect(args.rects[i])]
    /\ active = {}
    /\ labels = [i \in 1..Len(args.rects) |-> args.rects[i].label]
    /\ newBBoxIndex = 0
    /\ selectedIndex = null
    /\ labelInput = ""
    /\ kd = [newBBoxIndex |-> 0, labels |-> labels, args |-> args]
    /\ emitted = <<>>
    /\ sent = 0
    /\ listeners = [canvas |-> register(NoListeners), previous |-> 0, window |-> 1]
    /\ undisposed = 0
    /\ lastOp = "mount"
    /\ afterClear = FALSE
    /\ gesture = "idle"

\* the bounds of the model: no more than MaxBoxes shapes and labels, no
\* counter above MaxIndex
CanAdd(c) ==
    /\ Len(objects) < MaxBoxes
    /\ Len(c.labels) < MaxBoxes
    /\ c.newBBoxIndex < MaxIndex

\* the effects of deps [canvas, labels] run again, or do not
Rebind ==
    /\ kd' = Render'
    /\ listeners' = effectsRerun(listeners)

Keep == UNCHANGED <<kd, listeners>>

\* setCanvas of the canvas effect: the effects run again for another canvas
RebindOnNewCanvas ==
    /\ kd' = Render'
    /\ listeners' = effectsRerunOnNewCanvas(listeners)

\* Buttons carry the handlers of the latest render.  A handler that sets labels
\* to a new array makes the keydown effect (deps [canvas, labels]) run again.
AddClick ==
    /\ CanAdd(Render)
    /\ Apply(addBoxHandler(Render, State))
    /\ UNCHANGED args
    /\ Rebind
    /\ Op("add")

RemoveClick ==
    /\ Apply(removeBoxHandler(Render, State))
    /\ UNCHANGED args
    /\ Rebind
    /\ Op("remove")

\* The last setLabels of resetHandler passes the array the state already
\* holds: labels keeps its identity and the keydown effect does not run again.
ResetClick ==
    /\ Apply(resetHandler(Render, State))
    /\ UNCHANGED args
    /\ Keep
    /\ Op("reset")

ClearClickStaleKeys ==
    /\ Apply(clearHandler(Render, State))
    /\ UNCHANGED args
    /\ Keep
    /\ Op("clear")

ClearClick ==
    /\ Apply(clearHandler(Render, State))
    /\ UNCHANGED args
    /\ Rebind
    /\ Op("clear")

\* window keydown: the handlers of the closure kd
KeyA ==
    /\ CanAdd(kd)
    /\ Apply(addBoxHandler(kd, State))
    /\ UNCHANGED args
    /\ Rebind
    /\ Op("add")

KeyR ==
    /\ Apply(removeBoxHandler(kd, State))
    /\ UNCHANGED args
    /\ Rebind
    /\ Op("remove")

\* A native listener: React before 18 renders after each setState of it (labels
\* passes through [] and the listener is bound again), React 18 batches them
\* (labels keeps its identity and the listener stays).
KeyX ==
    /\ Apply(resetHandler(kd, State))
    /\ UNCHANGED args
    /\ \E rebound \in BOOLEAN : IF rebound THEN Rebind ELSE Keep
    /\ Op("reset")

KeyC ==
    /\ Apply(clearHandler(kd, State))
    /\ UNCHANGED args
    /\ Rebind
    /\ Op("clear")

\* fabric events: the user selects on the canvas.  A click selects one shape;
\* a marquee selects several, and fabric lists them in e.selected in the
\* order of the canvas, so e.selected[0] is the lowest of them.
SelectionCreated ==
    /\ active = {}
    /\ \E sel \in (SUBSET (1..Len(objects))) \ {{}} : \E first \in {Lowest(sel)} :
          Apply(IF listeners.canvas.created > 0
                THEN handleSelected(Render, first, [State EXCEPT !.active = sel])
                ELSE [State EXCEPT !.active = sel])
    /\ UNCHANGED args
    /\ Keep
    /\ Op("idle")

\* selection:updated lists in e.selected the shapes that joined the selection
\* only (a shift-click on a further shape, a click on another shape); it is
\* empty when a shape left a selection of several.
SelectionUpdated ==
    /\ active # {}
    /\ \E sel \in (SUBSET (1..Len(objects))) \ {{}, active} :
          \E first \in (IF sel \subseteq active THEN {0} ELSE sel \ active) :
              Apply(IF listeners.canvas.updated > 0
                    THEN handleSelected(Render, first, [State EXCEPT !.active = sel])
                    ELSE [State EXCEPT !.active = sel])
    /\ UNCHANGED args
    /\ Keep
    /\ Op("idle")

SelectionCleared ==
    /\ active # {}
    /\ Apply(IF listeners.canvas.cleared > 0
             THEN [State EXCEPT !.active = {}, !.selectedIndex = null]
             ELSE [State EXCEPT !.active = {}])
    /\ UNCHANGED args
    /\ Keep
    /\ Op("idle")

\* the user has moved or resized a selected shape
ObjectModified ==
    /\ \E i \in active :
          Apply(fireModified(listeners.canvas.modified, Render,
                    [State EXCEPT !.objects = [objects EXCEPT ![i] = MovedGeometry]]))
    /\ UNCHANGED args
    /\ Keep
    /\ Op("modified")

\* The label input is rendered while selectedIndex is not null.  Its text is
\* typed or pasted; the letters a, r, x and c reach the window listener as
\* well (KeyA, KeyR, KeyX, KeyC), the letters of InputTexts do not.
LabelInputChange ==
    /\ selectedIndex # null
    /\ \E text \in InputTexts : labelInput' = text
    /\ UNCHANGED <<args, objects, active, labels, newBBoxIndex, selectedIndex,
                   emitted>>
    /\ sent' = 0
    /\ undisposed' = 0
    /\ Keep
    /\ Op("idle")

LabelCommit ==
    /\ selectedIndex # null
    /\ Apply(commitLabel(Render, State))
    /\ UNCHANGED args
    /\ Rebind
    /\ Op("label")

\* A key is typed into the focused label input.  Its keydown event bubbles to
\* the window listener, which does not look at the target of the event; then,
\* if the input is still rendered (selectedIndex is not null), the character
\* is inserted and onChange stores the new text.
TypeKey ==
    /\ selectedIndex # null
    /\ Len(labelInput) < MaxText
    /\ \E key \in Keys :
          LET s1 == handleKeyDown(kd, key, State)
              s2 == IF s1.selectedIndex # null
                    THEN [s1 EXCEPT !.labelInput = labelInput \o key]
                    ELSE s1
          IN  /\ key = "a" => CanAdd(kd)
              /\ Apply(s2)
              /\ UNCHANGED args
              /\ IF key \in {"a", "r", "c"} THEN Rebind
                 ELSE IF key = "x"
                      THEN \E rebound \in BOOLEAN : IF rebound THEN Rebind ELSE Keep
                      ELSE Keep
    /\ Op("type")

\* the host sends arguments with another image: the canvas effect runs
Rebuild ==
    /\ \E a \in PythonArgs :
          /\ args' = a
          /\ Apply(initCanvas(a, State))
    /\ RebindOnNewCanvas
    /\ Op("rebuild")

\* the host sends other rects with the same image and dimensions: a render,
\* and no effect runs
ArgsChange ==
    /\ \E a \in PythonArgs :
          /\ a # args
          /\ args' = a
    /\ UNCHANGED <<objects, active, labels, newBBoxIndex, selectedIndex, labelInput,
                   emitted>>
    /\ sent' = 0
    /\ undisposed' = 0
    /\ Keep
    /\ Op("idle")

\* window keydown with a key that is none of a, r, x, c: handleKeyDown takes
\* no branch
KeyOther ==
    /\ gesture \in {"idle", "key"}
    /\ gesture' = "key"
    /\ lastOp' = "key"
    /\ afterClear' = (lastOp = "clear")
    /\ UNCHANGED <<args, objects, active, labels, newBBoxIndex, selectedIndex,
                   labelInput, emitted>>
    /\ sent' = 0
    /\ undisposed' = 0
    /\ Keep

\* The pointer goes down on the canvas and comes up where it went down, on a
\* place where fabric changes no selection.  The component registers no
\* listener for pointer events (canvas.on is called for object:modified and
\* the three selection events only): no handler runs.
PointerDown ==
    /\ gesture \in {"idle", "key"}
    /\ gesture' = IF gesture = "key" THEN "key-down" ELSE "down"
    /\ lastOp' = "pointerdown"
    /\ afterClear' = (lastOp = "clear")
    /\ UNCHANGED <<args, objects, active, labels, newBBoxIndex, selectedIndex,
                   labelInput, emitted>>
    /\ sent' = 0
    /\ undisposed' = 0
    /\ Keep

PointerUp ==
    /\ gesture \in {"down", "key-down"}
    /\ gesture' = "idle"
    /\ lastOp' = "pointerup"
    /\ afterClear' = (lastOp = "clear")
    /\ UNCHANGED <<args, objects, active, labels, newBBoxIndex, selectedIndex,
                   labelInput, emitted>>
    /\ sent' = 0
    /\ undisposed' = 0
    /\ Keep

Next ==
    \/ AddClick \/ RemoveClick \/ ResetClick \/ ClearClick
    \/ KeyA \/ KeyR \/ KeyX \/ KeyC
    \/ SelectionCreated \/ SelectionUpdated \/ SelectionCleared
    \/ ObjectModified
    \/ LabelInputChange \/ LabelCommit
    \/ Rebuild \/ ArgsChange

Spec == Init /\ [][Next]_vars

\* quick-add, remove-selected and relabel only (with the selecting and typing
\* they need)
NextEdit ==
    \/ AddClick \/ RemoveClick
    \/ KeyA \/ KeyR
    \/ SelectionCreated \/ SelectionUpdated \/ SelectionCleared
    \/ LabelInputChange \/ LabelCommit

SpecEdit == Init /\ [][NextEdit]_vars

\* the editing steps, the keys that are no shortcut and the pointer on the
\* canvas
NextPointer ==
    \/ NextEdit
    \/ KeyOther \/ PointerDown \/ PointerUp

SpecPointer == Init /\ [][NextPointer]_vars

\* selecting, typing into the label editor key by key and committing
NextType ==
    \/ SelectionCreated \/ SelectionUpdated \/ SelectionCleared
    \/ TypeKey \/ LabelCommit

SpecType == Init /\ [][NextType]_vars

\* ================================================================ claims
EmittingOps == {"add", "remove", "reset", "clear", "modified", "label"}

\* the position a survivor of a removal of the positions sel moves to
Shifted(i, sel) == i - Cardinality({ j \in sel : j < i })

\* C1: after Reset the box collection, as emitted, is the host-supplied rects:
\* as many boxes, in the same order, shape i with the geometry of rect i and
\* emitted with the label of rect i.
C1_ResetRestoresRects ==
    lastOp = "reset" =>
        /\ Len(objects) = Len(args.rects)
        /\ Len(emitted) = Len(args.rects)
        /\ \A i \in 1..Len(args.rects) :
              /\ i <= Len(objects) => objects[i] = Rect(args.rects[i])
              /\ i <= Len(emitted) => emitted[i].label = args.rects[i].label

\* C2: a label commit while several boxes are selected gives every selected
\* index the text of the editor and leaves the label of every other index as
\* it was.
C2_BulkRelabel ==
    [][(lastOp' = "label" /\ Cardinality(active) >= 2) =>
          \A i \in 1..Len(objects) :
              IF i \in active THEN At(labels', i) = labelInput
                              ELSE At(labels', i) = At(labels, i)]_vars

\* C3: remove-selected removes exactly the boxes at the selected positions, in
\* one step: every other box survives with its geometry and its label, in the
\* same relative order, at contiguous positions.
C3_RemoveExactlySelected ==
    [][lastOp' = "remove" =>
          /\ Len(objects') = Len(objects) - Cardinality(active)
          /\ \A i \in (1..Len(objects)) \ active :
                /\ objects'[Shifted(i, active)] = objects[i]
                /\ At(labels', Shifted(i, active)) = At(labels, i)]_vars

\* C4: under quick-add, remove-selected and relabel alone, each emitted list
\* has one entry per box of the store (per shape and per label), and every
\* entry carries a defined label.
C4_EmittedLengthAndLabels ==
    lastOp \in {"add", "remove", "label"} =>
        /\ Len(emitted) = Len(objects)
        /\ Len(emitted) = Len(labels)
        /\ \A i \in 1..Len(emitted) : emitted[i].label \notin {undefined, hole}

C4_Witness ==
    /\ lastOp = "remove"
    /\ Len(emitted) = 1
    /\ emitted[1].label = "pig"

\* C5: after every operation that changes geometry, label or membership, the
\* last emitted value is the complete current collection: one entry per shape,
\* in order, with the bounding box of the shape and the label at its index.
C5_EmittedIsCurrentCollection ==
    lastOp \in EmittingOps =>
        /\ Len(emitted) = Len(objects)
        /\ \A i \in 1..Len(objects) :
              /\ emitted[i].left = objects[i].left
              /\ emitted[i].top = objects[i].top
              /\ emitted[i].width = objects[i].width + StrokeWidth
              /\ emitted[i].height = objects[i].height + StrokeWidth
              /\ emitted[i].label = At(labels, i)

C5_Witness ==
    /\ lastOp = "modified"
    /\ Len(objects) = 2
    /\ objects[2] = MovedGeometry
    /\ emitted[2].left = MovedGeometry.left
    /\ emitted[1].label = "pig"

\* C6: Clear-all leaves no shape and no label, emits the empty list and sets
\* the quick-add counter to 0.
C6_ClearEmptiesAll ==
    lastOp = "clear" =>
        /\ objects = <<>>
        /\ labels = <<>>
        /\ emitted = <<>>
        /\ newBBoxIndex = 0

C6_Witness ==
    /\ lastOp = "clear"
    /\ objects = <<>>
    /\ newBBoxIndex = 0
    /\ kd.newBBoxIndex = 0
    /\ labelInput = "pig"

\* C7: a quick-add made when the counter is n (n quick-adds since the counter
\* was last reset) places the box at left 0.15 W + 3 n, top 0.15 H + 3 n, with
\* width 0.2 W and height 0.2 H.
C7_QuickAddPlacement ==
    [][lastOp' = "add" =>
          /\ Len(objects') = Len(objects) + 1
          /\ objects'[Len(objects')] =
                [left |-> (args.canvasWidth * 15) \div 100 + 3 * newBBoxIndex,
                 top |-> (args.canvasHeight * 15) \div 100 + 3 * newBBoxIndex,
                 width |-> (args.canvasWidth * 20) \div 100,
                 height |-> (args.canvasHeight * 20) \div 100]]_vars

\* C8: a quick-add that directly follows Clear-all, by button or by key, places
\* its box where the very first quick-add on an empty store places it, and it
\* is the only box.
C8_QuickAddAfterClear ==
    (lastOp = "add" /\ afterClear) =>
        objects = << [left |-> (args.canvasWidth * 15) \div 100,
                      top |-> (args.canvasHeight * 15) \div 100,
                      width |-> (args.canvasWidth * 20) \div 100,
                      height |-> (args.canvasHeight * 20) \div 100] >>

C8_Witness ==
    /\ lastOp = "add"
    /\ afterClear
    /\ Len(objects) = 1
    /\ newBBoxIndex = 1
    /\ args.rects # <<>>

\* C9: quick-add increases the counter by exactly one, Clear-all resets it, and
\* every other operation leaves it as it was.
C9_CounterFrame ==
    [][/\ lastOp' = "add" => newBBoxIndex' = newBBoxIndex + 1
       /\ lastOp' \notin {"add", "clear"} => newBBoxIndex' = newBBoxIndex]_vars

\* C10: the tracked selection is empty or an index of the current collection.
C10_SelectionValid ==
    selectedIndex = null \/ (0 <= selectedIndex /\ selectedIndex < Len(objects))


\* C11: a label commit whose selectedIndex is no index of the shape list, and
\* a remove whose selection holds no shape of the list, leave the shape list
\* and the label list exactly as they were (the label list does not grow).
C11_OutOfRangeNoOp ==
    [][/\ (lastOp' = "label" /\ selectedIndex >= Len(objects)) =>
              (objects' = objects /\ labels' = labels)
       /\ (lastOp' = "remove" /\ active = {}) =>
              (objects' = objects /\ labels' = labels)]_vars

\* C12: an emission made right after the canvas was initialized with rects,
\* with no edit in between (a remove with nothing selected, or a reset), is
\* rects entry by entry: left, top, width, height and label, in order.
C12_RoundTrip ==
    [][(lastOp \in {"mount", "rebuild"} /\ lastOp' \in {"remove", "reset"}) =>
            emitted' = args.rects]_vars

\* C13: a keyboard shortcut enters a drawing mode, and a pointer-down followed
\* by a pointer-up in it returns to idle, adds exactly one box with an empty
\* label at the end of the collection, makes it the active selection and
\* emits the updated list.  The shortcut is any key that is not one of the
\* four other shortcuts.
C13_DrawingAddsOneBox ==
    [][(gesture = "key-down" /\ lastOp' = "pointerup") =>
            /\ gesture' = "idle"
            /\ Len(objects') = Len(objects) + 1
            /\ SubSeq(objects', 1, Len(objects)) = objects
            /\ At(labels', Len(objects')) = ""
            /\ active' = {Len(objects')}
            /\ Len(emitted') = Len(objects')]_vars

\* C14: after every handler (reset, clear-all followed by reset and a rebuild
\* of the canvas included) the label list has one entry per shape.
C14_OneLabelPerShape == Len(labels) = Len(objects)

\* C15: typing a text into the label editor key by key, each key reaching the
\* window keydown listener too, and committing it change no shape (number,
\* geometry, order) and not the quick-add counter, whatever the keys.
C15_LabelEditIsPure ==
    [][lastOp' \in {"type", "label"} =>
            (objects' = objects /\ newBBoxIndex' = newBBoxIndex)]_vars

\* C16: one fabric canvas is live at any time: the number of canvases that are
\* not disposed of stays 1, since a step that makes a canvas (a rebuild)
\* disposes of the previous one.
C16_OneLiveSurface == undisposed = 0

\* C17: registration is paired with teardown: the current canvas has exactly
\* one handler for each of object:modified, selection:created,
\* selection:updated and selection:cleared, the window has exactly one keydown
\* handler, no handler is left on a previous canvas, and one object:modified
\* event makes exactly one emission.
C17_ListenersPaired ==
    /\ listeners.canvas = [modified |-> 1, created |-> 1, updated |-> 1, cleared |-> 1]
    /\ listeners.window = 1
    /\ listeners.previous = 0
    /\ lastOp = "modified" => sent = 1

\* a shape is modified after a label commit made the effects run again
C17_Witness ==
    /\ lastOp = "modified"
    /\ sent = 1
    /\ At(labels, 1) = "pig"
    /\ listeners.canvas.modified = 1
    /\ listeners.previous = 0

\* C18: while the selection of the canvas is not empty the label editor is
\* shown and bound to the lowest selected index, and after selection:created
\* and every selection:updated it shows the current label of that box.
C18_EditorBoundToLowest ==
    [][/\ active' # {} => selectedIndex' = Lowest(active') - 1
       /\ (active' # {} /\ active' # active) =>
              labelInput' = (IF At(labels', Lowest(active')) = undefined
                             THEN "" ELSE At(labels', Lowest(active')))]_vars

\* C19: in every reachable state the key a, r, x or c leaves the same shapes,
\* labels, counter and emission as a click on the button of the operation,
\* also after the host has sent other rects with the same image and
\* dimensions.
C19_KeyEqualsButton ==
    LET same(k, b) == /\ k.objects = b.objects
                      /\ k.labels = b.labels
                      /\ k.newBBoxIndex = b.newBBoxIndex
                      /\ k.emitted = b.emitted
    IN  /\ same(handleKeyDown(kd, "a", State), addBoxHandler(Render, State))
        /\ same(handleKeyDown(kd, "r", State), removeBoxHandler(Render, State))
        /\ same(handleKeyDown(kd, "x", State), resetHandler(Render, State))
        /\ same(handleKeyDown(kd, "c", State), clearHandler(Render, State))
====
